---- MODULE Spec2Model ----
(***************************************************************************)
(* aSentrX trade decision engine: notification intake, deduplication,      *)
(* routing to the content analyzers, classification of the analysis        *)
(* result, trade parameter resolution and order execution.                 *)
(*                                                                         *)
(* Scaling of the floating point configuration values:                     *)
(*   confidences and thresholds are in hundredths       (0.96   -> 96)     *)
(*   order amounts are in units of 0.00001              (0.002  -> 200)    *)
(*   limit offsets are in thousandths                   (0.005  -> 5)      *)
(*   prices are integers; a limit price is price * (1000 +- offset),       *)
(*   that is the real limit price times 1000.                              *)
(***************************************************************************)
EXTENDS Integers, Sequences, FiniteSets, TLC

\* ------------------------------------------------------------------ bounds
MaxReq == 2
MaxKey == 2

Requests == 1..MaxReq
None == "None"
\* dedup keys a payload can carry: a url / content id, or no value at all
Keys == {ToString(i) : i \in 1..MaxKey} \cup {None}

\* ------------------------------------------------------------ app/config.py
\* The attributes class AppConfig defines, with their default values.
AppConfig ==
  [ ORDER_AMOUNT_FED_BUY_HIGH_CONF          |-> 200,
    ORDER_AMOUNT_FED_SHORT_HIGH_CONF        |-> -200,
    ORDER_AMOUNT_FED_BUY_MED_CONF           |-> 100,
    ORDER_AMOUNT_FED_SHORT_MED_CONF         |-> -100,
    LEVERAGE_FED_BUY_HIGH_CONF              |-> 20,
    LEVERAGE_FED_SHORT_HIGH_CONF            |-> 20,
    LEVERAGE_FED_BUY_MED_CONF               |-> 10,
    LEVERAGE_FED_SHORT_MED_CONF             |-> 10,
    CONFIDENCE_THRESHOLD_FED_HIGH           |-> 96,
    CONFIDENCE_THRESHOLD_FED_MED            |-> 92,
    TS_ORDER_AMOUNT_BUY_HIGH_CONF           |-> 100,
    TS_ORDER_AMOUNT_SHORT_HIGH_CONF         |-> -100,
    TS_ORDER_AMOUNT_BUY_MED_CONF            |-> 50,
    TS_ORDER_AMOUNT_SHORT_MED_CONF          |-> -50,
    TS_LEVERAGE_BUY_HIGH_CONF               |-> 10,
    TS_LEVERAGE_SHORT_HIGH_CONF             |-> 10,
    TS_LEVERAGE_BUY_MED_CONF                |-> 5,
    TS_LEVERAGE_SHORT_MED_CONF              |-> 5,
    TS_ORDER_AMOUNT_BITCOIN_BUY_HIGH_CONF   |-> 150,
    TS_ORDER_AMOUNT_BITCOIN_SHORT_HIGH_CONF |-> -150,
    TS_ORDER_AMOUNT_BITCOIN_BUY_MED_CONF    |-> 75,
    TS_ORDER_AMOUNT_BITCOIN_SHORT_MED_CONF  |-> -75,
    TS_LEVERAGE_BITCOIN_BUY_HIGH_CONF       |-> 15,
    TS_LEVERAGE_BITCOIN_SHORT_HIGH_CONF     |-> 15,
    TS_LEVERAGE_BITCOIN_BUY_MED_CONF        |-> 7,
    TS_LEVERAGE_BITCOIN_SHORT_MED_CONF      |-> 7,
    TS_CONFIDENCE_THRESHOLD_HIGH            |-> 95,
    TS_CONFIDENCE_THRESHOLD_MED             |-> 90,
    TS_CONFIDENCE_THRESHOLD_BITCOIN_HIGH    |-> 93,
    TS_CONFIDENCE_THRESHOLD_BITCOIN_MED     |-> 88,
    LIMIT_OFFSET_BUY                        |-> 5,
    LIMIT_OFFSET_SHORT                      |-> 5 ]

\* ------------------------------------- app/trading/trade_decision_manager.py
\* The AppConfig attributes _determine_trade_params reads for the generic
\* defaults (lines 36-45), by the local variable they are assigned to.
GenericBundle_TS ==
  [ amount_buy_high     |-> "TS_ORDER_AMOUNT_BUY_HIGH_CONF",
    amount_short_high   |-> "TS_ORDER_AMOUNT_SHORT_HIGH_CONF",
    amount_buy_med      |-> "TS_ORDER_AMOUNT_BUY_MED_CONF",
    amount_short_med    |-> "TS_ORDER_AMOUNT_SHORT_MED_CONF",
    leverage_buy_high   |-> "TS_LEVERAGE_BUY_HIGH_CONF",
    leverage_short_high |-> "TS_LEVERAGE_SHORT_HIGH_CONF",
    leverage_buy_med    |-> "TS_LEVERAGE_BUY_MED_CONF",
    leverage_short_med  |-> "TS_LEVERAGE_SHORT_MED_CONF",
    threshold_high      |-> "TS_CONFIDENCE_THRESHOLD_HIGH",
    threshold_med       |-> "TS_CONFIDENCE_THRESHOLD_MED" ]

GenericBundle ==
  [ amount_buy_high     |-> "ORDER_AMOUNT_BUY_HIGH_CONF",
    amount_short_high   |-> "ORDER_AMOUNT_SHORT_HIGH_CONF",
    amount_buy_med      |-> "ORDER_AMOUNT_BUY_MED_CONF",
    amount_short_med    |-> "ORDER_AMOUNT_SHORT_MED_CONF",
    leverage_buy_high   |-> "LEVERAGE_BUY_HIGH_CONF",
    leverage_short_high |-> "LEVERAGE_SHORT_HIGH_CONF",
    leverage_buy_med    |-> "LEVERAGE_BUY_MED_CONF",
    leverage_short_med  |-> "LEVERAGE_SHORT_MED_CONF",
    threshold_high      |-> "CONFIDENCE_THRESHOLD_HIGH",
    threshold_med       |-> "CONFIDENCE_THRESHOLD_MED" ]

\* the overrides for topic "bitcoin" (lines 48-58)
BitcoinBundle ==
  [ amount_buy_high     |-> "ORDER_AMOUNT_BITCOIN_BUY_HIGH_CONF",
    amount_short_high   |-> "ORDER_AMOUNT_BITCOIN_SHORT_HIGH_CONF",
    amount_buy_med      |-> "ORDER_AMOUNT_BITCOIN_BUY_MED_CONF",
    amount_short_med    |-> "ORDER_AMOUNT_BITCOIN_SHORT_MED_CONF",
    leverage_buy_high   |-> "LEVERAGE_BITCOIN_BUY_HIGH_CONF",
    leverage_short_high |-> "LEVERAGE_BITCOIN_SHORT_HIGH_CONF",
    leverage_buy_med    |-> "LEVERAGE_BITCOIN_BUY_MED_CONF",
    leverage_short_med  |-> "LEVERAGE_BITCOIN_SHORT_MED_CONF",
    threshold_high      |-> "CONFIDENCE_THRESHOLD_BITCOIN_HIGH",
    threshold_med       |-> "CONFIDENCE_THRESHOLD_BITCOIN_MED" ]

\* the overrides for topic "fed_decision" (lines 59-69)
FedBundle ==
  [ amount_buy_high     |-> "ORDER_AMOUNT_FED_BUY_HIGH_CONF",
    amount_short_high   |-> "ORDER_AMOUNT_FED_SHORT_HIGH_CONF",
    amount_buy_med      |-> "ORDER_AMOUNT_FED_BUY_MED_CONF",
    amount_short_med    |-> "ORDER_AMOUNT_FED_SHORT_MED_CONF",
    leverage_buy_high   |-> "LEVERAGE_FED_BUY_HIGH_CONF",
    leverage_short_high |-> "LEVERAGE_FED_SHORT_HIGH_CONF",
    leverage_buy_med    |-> "LEVERAGE_FED_BUY_MED_CONF",
    leverage_short_med  |-> "LEVERAGE_FED_SHORT_MED_CONF",
    threshold_high      |-> "CONFIDENCE_THRESHOLD_FED_HIGH",
    threshold_med       |-> "CONFIDENCE_THRESHOLD_FED_MED" ]

\* Reading AppConfig.<name> raises AttributeError when the class does not
\* define <name>.
HasAttr(name) == name \in DOMAIN AppConfig

RaisesAttributeError(bundle) == \E f \in DOMAIN bundle : ~HasAttr(bundle[f])

\* the values of a bundle whose attributes are all defined
LoadBundle(bundle) == [f \in DOMAIN bundle |-> AppConfig[bundle[f]]]

\* str.lower() on the topic and direction strings of the model
Lower(s) ==
  CASE s = "Bitcoin"  -> "bitcoin"
    [] s = "UP"       -> "up"
    [] s = "Down"     -> "down"
    [] OTHER          -> s

\* the three results of _determine_trade_params: an order dict, None, or an
\* exception that leaves the function
NoOrder == [kind |-> "None", amount |-> 0, limit_offset_percentage |-> 0,
            leverage |-> 0, description |-> ""]

RaisedOrder == [kind |-> "raise", amount |-> 0, limit_offset_percentage |-> 0,
                leverage |-> 0, description |-> ""]

OrderDict(amount, offset, leverage, desc) ==
  [kind |-> "order", amount |-> amount, limit_offset_percentage |-> offset,
   leverage |-> leverage, description |-> desc]

\* lines 77-121, given the bundle `cur` in force for the topic
TierSelect(cur, direction_lower, confidence) ==
  IF direction_lower = "up" \/ direction_lower = "positive"
  THEN IF confidence >= cur.threshold_high
       THEN OrderDict(cur.amount_buy_high, AppConfig.LIMIT_OFFSET_BUY,
                      cur.leverage_buy_high, "BUY/LONG (High-Confidence UP)")
       ELSE IF confidence >= cur.threshold_med
       THEN OrderDict(cur.amount_buy_med, AppConfig.LIMIT_OFFSET_BUY,
                      cur.leverage_buy_med, "BUY/LONG (Medium-Confidence UP)")
       ELSE NoOrder
  ELSE IF direction_lower = "down" \/ direction_lower = "negative"
  THEN IF confidence >= cur.threshold_high
       THEN OrderDict(cur.amount_short_high, AppConfig.LIMIT_OFFSET_SHORT,
                      cur.leverage_short_high, "SHORT (High-Confidence DOWN)")
       ELSE IF confidence >= cur.threshold_med
       THEN OrderDict(cur.amount_short_med, AppConfig.LIMIT_OFFSET_SHORT,
                      cur.leverage_short_med, "SHORT (Medium-Confidence DOWN)")
       ELSE NoOrder
  ELSE NoOrder

\* TradeDecisionManager._determine_trade_params: the generic defaults are
\* read first, then the overrides of the topic, then the tiers are applied.
determine_trade_params(topic, direction, confidence) ==
  LET topic_lower     == Lower(topic)
      direction_lower == Lower(direction)
  IN  IF RaisesAttributeError(GenericBundle) THEN RaisedOrder
      ELSE IF topic_lower = "bitcoin"
      THEN IF RaisesAttributeError(BitcoinBundle) THEN RaisedOrder
           ELSE TierSelect(LoadBundle(BitcoinBundle), direction_lower, confidence)
      ELSE IF topic_lower = "fed_decision"
      THEN IF RaisesAttributeError(FedBundle) THEN RaisedOrder
           ELSE TierSelect(LoadBundle(FedBundle), direction_lower, confidence)
      ELSE TierSelect(LoadBundle(GenericBundle), direction_lower, confidence)

\* ------------------------------------------------- app/trading/trader.py
\* What BitfinexTrader.get_derivative_status can hand back: None (request or
\* JSON error), a list whose inner entry is malformed or too short, an
\* escaping exception, or a status row of which the model keeps the two
\* price cells.  A cell is None, a non-numeric value, or a price.
Prices == {60000, 61000}
PriceCell(kind, value) == [kind |-> kind, value |-> value]
PriceCells == {PriceCell("None", 0), PriceCell("NaN", 0)}
                \cup {PriceCell("number", p) : p \in Prices}
StatusRows == [mark : PriceCells, last : PriceCells]
StatusOutcomes == {[kind |-> "None"], [kind |-> "malformed"], [kind |-> "raise"]}
                    \cup {[kind |-> "row", mark |-> c.mark, last |-> c.last] : c \in StatusRows}
\* BitfinexTrader.submit_order returns the exchange's result, or None when
\* the authenticated call raised.
SubmitOutcomes == {"order_result", None}

\* float(cell) succeeds exactly on the numeric cells
IsNumeric(cell) == cell.kind = "number"

current_price_last_first(mark_price_val, last_price_val) ==
  IF last_price_val.kind # "None" /\ IsNumeric(last_price_val) THEN last_price_val
  ELSE IF mark_price_val.kind # "None" /\ IsNumeric(mark_price_val) THEN mark_price_val
  ELSE PriceCell("None", 0)

\* lines 84-97: MARK_PRICE first, LAST_PRICE as the fallback
current_price(mark_price_val, last_price_val) ==
  IF mark_price_val.kind # "None" /\ IsNumeric(mark_price_val) THEN mark_price_val
  ELSE IF last_price_val.kind # "None" /\ IsNumeric(last_price_val) THEN last_price_val
  ELSE PriceCell("None", 0)

limit_price_swapped(price, amount, limit_offset_percentage) ==
  IF amount > 0 THEN price * (1000 - limit_offset_percentage)
  ELSE price * (1000 + limit_offset_percentage)

\* lines 108-111, scaled by 1000
limit_price(price, amount, limit_offset_percentage) ==
  IF amount > 0 THEN price * (1000 + limit_offset_percentage)
  ELSE price * (1000 - limit_offset_percentage)

NoSubmission == [type |-> None, amount |-> 0, price |-> 0, lev |-> 0]

\* Trader.execute_order: its return value, whether an exception left it, and
\* the calls it made on the exchange client.
execute_order(amount, leverage, limit_offset_percentage, status, submit) ==
  IF status.kind = "raise"
  THEN [result |-> None, raised |-> TRUE, status_fetches |-> 1, submits |-> 0,
        submitted |-> NoSubmission]
  ELSE IF status.kind = "None" \/ status.kind = "malformed"
  THEN [result |-> None, raised |-> FALSE, status_fetches |-> 1, submits |-> 0,
        submitted |-> NoSubmission]
  ELSE LET cp == current_price(status.mark, status.last)
       IN  IF cp.kind = "None"
           THEN [result |-> None, raised |-> FALSE, status_fetches |-> 1,
                 submits |-> 0, submitted |-> NoSubmission]
           ELSE [result |-> submit, raised |-> FALSE, status_fetches |-> 1,
                 submits |-> 1,
                 submitted |-> [type |-> "LIMIT", amount |-> amount,
                                price |-> limit_price(cp.value, amount, limit_offset_percentage),
                                lev |-> leverage]]

NoExecution == [result |-> None, raised |-> FALSE, status_fetches |-> 0,
                submits |-> 0, submitted |-> NoSubmission]

\* ------------------------------------- app/trading/trade_decision_manager.py
\* An analysis result: the class of the object and the fields the trade
\* manager reads from it.
AnalysisResult(type, topic, direction, confidence) ==
  [type |-> type, topic |-> topic, direction |-> direction, confidence |-> confidence]

\* an Optional[float] that is None
NoConfidence == -1

\* `not x` on an Optional[str]
Falsy(x) == x = None \/ x = ""

\* what one call of execute_trade_from_analysis did
NoTrade == [raised |-> FALSE, resolver_calls |-> 0, order |-> NoOrder,
            executor_calls |-> 0, exec |-> NoExecution, simulated |-> FALSE,
            sms |-> None]

\* line 148: `confidence is None`
ConfidenceMissing_falsy(confidence) == confidence = NoConfidence \/ confidence = 0

ConfidenceMissing(confidence) == confidence = NoConfidence

\* lines 168-209, for a resolved order
ExecuteResolved(order, prod, sms_enabled, status, submit) ==
  LET ex == IF prod
            THEN execute_order(order.amount, order.leverage,
                               order.limit_offset_percentage, status, submit)
            ELSE NoExecution
      order_executed_successfully ==
            IF prod THEN (~ex.raised /\ ex.result # None) ELSE TRUE
  IN  [raised |-> FALSE, resolver_calls |-> 1, order |-> order,
       executor_calls |-> IF prod THEN 1 ELSE 0,
       exec |-> ex, simulated |-> ~prod,
       sms |-> IF sms_enabled
               THEN (IF order_executed_successfully THEN "Succeeded" ELSE "Failed/Aborted")
               ELSE None]

\* TradeDecisionManager.execute_trade_from_analysis
execute_trade_from_analysis(analysis_result, prod, sms_enabled, status, submit) ==
  LET isSocial == analysis_result.type = "AnalysisOutput"
      isFed    == analysis_result.type = "FEDDecisionImpact"
      topic      == IF isSocial THEN analysis_result.topic ELSE "fed_decision"
      direction  == analysis_result.direction
      confidence == analysis_result.confidence
  IN  IF ~isSocial /\ ~isFed THEN NoTrade
      ELSE IF Falsy(topic) \/ Falsy(direction) \/ ConfidenceMissing(confidence) THEN NoTrade
      ELSE LET trade_params == determine_trade_params(topic, direction, confidence)
           IN  IF trade_params.kind = "raise"
               THEN [NoTrade EXCEPT !.raised = TRUE, !.resolver_calls = 1,
                                    !.order = RaisedOrder]
               ELSE IF trade_params.kind = "None"
               THEN [NoTrade EXCEPT !.resolver_calls = 1]
               ELSE ExecuteResolved(trade_params, prod, sms_enabled, status, submit)

\* ------------------------------------------------------------- app/main.py
VARIABLES
  processed_content_ids,     \* app.state.processed_content_ids
  fed_decision_analyzer,     \* app.state.fed_decision_analyzer is not None
  social_media_analyzer,     \* app.state.social_media_analyzer is not None
  trade_decision_manager,    \* app.state.trade_decision_manager is not None
  PROD_EXECUTION,            \* TradeDecisionManager.PROD_EXECUTION
  SMS_NOTIFICATIONS_ENABLED, \* AppConfig.SMS_NOTIFICATIONS_ENABLED
  reqs,                      \* the requests, numbered in order of arrival
  unit                       \* a direct call of the trade manager

vars == <<processed_content_ids, fed_decision_analyzer, social_media_analyzer,
          trade_decision_manager, PROD_EXECUTION, SMS_NOTIFICATIONS_ENABLED,
          reqs, unit>>

appState == <<fed_decision_analyzer, social_media_analyzer,
              trade_decision_manager, PROD_EXECUTION, SMS_NOTIFICATIONS_ENABLED>>

WebMonitor  == "web-monitor"
TruthSocial == "truth-social"
Channels == {WebMonitor, TruthSocial}

\* confidences the model calls can report (hundredths)
Confidences == {92, 96}

NoResult == AnalysisResult(None, None, None, NoConfidence)

\* a request that has not arrived yet
IdleRequest ==
  [pc |-> "idle", channel |-> None, type |-> None, key |-> None, code |-> 0,
   status |-> None, analyzer |-> None, analyzer_calls |-> 0,
   runs |-> [fed |-> 0, topic |-> 0, direction |-> 0],
   direction_agent |-> None, fault |-> FALSE,
   result |-> NoResult, tdm_called |-> FALSE, trade |-> NoTrade]

\* --- the model calls -----------------------------------------------------
\* what self.agent.run(content) of the FED analyzer can produce: one of the
\* three output classes, an output of another class, or an exception
FedRunOutputs ==
  {AnalysisResult("FEDDecisionImpact", None, d, c) :
       d \in {"positive", "negative", "neutral"}, c \in Confidences}
  \cup {AnalysisResult(t, None, None, NoConfidence) :
       t \in {"IrrelevantFEDContent", "FailedFEDAnalysis", "other", "exception"}}

\* FEDDecisionAnalyzer.analyze_content: the value it returns for a run output
FEDAnalyzeContent(out) ==
  IF out.type \in {"FEDDecisionImpact", "IrrelevantFEDContent"} THEN out
  ELSE AnalysisResult("FailedFEDAnalysis", None, None, NoConfidence)

\* what topic_classification_agent.run(content) can produce
TopicRunOutputs ==
  {[kind |-> "TopicClassification", classification |-> t] :
       t \in {"market", "bitcoin", "tariffs", "others", "unknown"}}
  \cup {[kind |-> k, classification |-> None] : k \in {"Failed", "other", "exception"}}

\* what a price direction agent's run(content) can produce
DirectionRunOutputs ==
  {[kind |-> "PriceDirectionPrediction", direction |-> d, confidence |-> c] :
       d \in {"up", "down", "neutral"}, c \in Confidences}
  \cup {[kind |-> k, direction |-> None, confidence |-> NoConfidence] :
       k \in {"Failed", "other", "exception"}}

\* SocialMediaPostAnalyzer.analyze_content up to the end of the topic step:
\* the pipeline output so far
EmptyPipelineOutput == AnalysisResult("SocialMediaAnalysisOutput", None, None, NoConfidence)

AfterTopic(out) ==
  IF out.kind = "TopicClassification"
  THEN [EmptyPipelineOutput EXCEPT !.topic = out.classification]
  ELSE EmptyPipelineOutput

\* the topics for which a direction agent is run (lines 141-154)
DirectionTopics_with_others == {"market", "bitcoin", "tariffs", "others"}

DirectionTopics == {"market", "bitcoin", "tariffs"}

NeedsDirection(out) ==
  out.kind = "TopicClassification" /\ out.classification \in DirectionTopics

\* lines 141-154: the agent that is run for the classified topic
DirectionAgentFor(classification) ==
  CASE classification = "market"  -> "market_price_direction_agent"
    [] classification = "bitcoin" -> "bitcoin_price_direction_agent"
    [] classification = "tariffs" -> "tariffs_impact_direction_agent"
    [] OTHER -> None

\* an exception raised by a model call, caught inside analyze_content
\* (fed_decision_agent.py line 100, social_media_agent.py line 177)
RunRaised(kind) == kind = "exception"

\* lines 161-172: the pipeline output after the direction step
AfterDirection(pipeline_output, out) ==
  IF out.kind = "PriceDirectionPrediction"
  THEN [pipeline_output EXCEPT !.direction = out.direction,
                               !.confidence = out.confidence]
  ELSE pipeline_output

\* --- _process_analysis_result ---------------------------------------------
FailedTypes     == {"FailedFEDAnalysis", "FailedSocialMediaAnalysis"}
IrrelevantTypes == {"IrrelevantFEDContent", "IrrelevantSocialMediaContent"}

\* line 157: isinstance(analysis_result, (FailedFEDAnalysis, FailedSocialMediaAnalysis))
IsFailedResult_never(analysis_result) == FALSE

IsFailedResult(analysis_result) == analysis_result.type \in FailedTypes

\* line 162: isinstance(analysis_result, (IrrelevantFEDContent, IrrelevantSocialMediaContent))
IsIrrelevantResult_never(analysis_result) == FALSE

IsIrrelevantResult(analysis_result) == analysis_result.type \in IrrelevantTypes

\* line 168: if not trade_decision_manager
TradeManagerMissing_never(tdm) == FALSE

TradeManagerMissing(tdm) == ~tdm

\* lines 171-172: the response when the trade manager is missing
TradeManagerUnavailableResponse_503 ==
  [code |-> 503, status |-> None, tdm_called |-> FALSE, trade |-> NoTrade]

TradeManagerUnavailableResponse ==
  [code |-> 200, status |-> "success_trade_manager_unavailable",
   tdm_called |-> FALSE, trade |-> NoTrade]

\* the HTTP status, the body's status, whether the trade manager was called
\* and what it did
process_analysis_result(analysis_result, tdm, prod, sms_enabled, status, submit) ==
  IF IsFailedResult(analysis_result)
  THEN [code |-> 200, status |-> "success_analysis_failed",
        tdm_called |-> FALSE, trade |-> NoTrade]
  ELSE IF IsIrrelevantResult(analysis_result)
  THEN [code |-> 200, status |-> "success_no_action",
        tdm_called |-> FALSE, trade |-> NoTrade]
  ELSE IF TradeManagerMissing(tdm)
  THEN TradeManagerUnavailableResponse
  ELSE LET t == execute_trade_from_analysis(analysis_result, prod, sms_enabled,
                                            status, submit)
       IN  IF t.raised
           THEN [code |-> 500, status |-> None, tdm_called |-> TRUE, trade |-> t]
           ELSE [code |-> 200, status |-> "success", tdm_called |-> TRUE, trade |-> t]

\* The exchange is consulted only by a call of Trader.execute_order: the
\* outcomes of its status fetch and order submission are drawn when the
\* processing of analysis_result gets that far.
DefaultStatus == [kind |-> "None"]

ExchangeOutcomes(analysis_result) ==
  IF process_analysis_result(analysis_result, trade_decision_manager,
                             PROD_EXECUTION, SMS_NOTIFICATIONS_ENABLED,
                             DefaultStatus, None).trade.executor_calls = 0
  THEN {<<DefaultStatus, None>>}
  ELSE StatusOutcomes \X SubmitOutcomes

\* the request record once the analysis result has been processed
Finish(req, analysis_result, status, submit) ==
  LET p == process_analysis_result(analysis_result, trade_decision_manager,
                                   PROD_EXECUTION, SMS_NOTIFICATIONS_ENABLED,
                                   status, submit)
  IN  [req EXCEPT !.pc = "done", !.result = analysis_result, !.code = p.code,
                  !.status = p.status, !.tdm_called = p.tdm_called,
                  !.trade = p.trade]

\* --- the dedup gate -------------------------------------------------------
\* lines 106 / 134: the membership test
AlreadyProcessed_never(processed_ids, key) == FALSE

AlreadyProcessed(processed_ids, key) == key \in processed_ids

\* lines 110 / 138: processed_ids.add(key)
AddProcessed_skipped(processed_ids, key) == processed_ids

AddProcessed_uuid(processed_ids, key) == processed_ids \cup {"uuid"}

AddProcessed(processed_ids, key) == processed_ids \cup {key}

\* lines 115 / 143: if not analyzer
AnalyzerMissing_never(analyzer) == FALSE

AnalyzerMissing(analyzer) == ~analyzer

\* lines 119 / 147: analyzer.analyze_content(...) is called, once
InvokeAnalyzer(req, name) ==
  [req EXCEPT !.analyzer = name, !.analyzer_calls = @ + 1]

\* an agent's run(content) is awaited: fed_decision_agent.py line 72,
\* social_media_agent.py lines 121 and 144-154; each is a single call outside
\* any loop
StartRun_again(req, agent) ==
  [req EXCEPT !.runs = [@ EXCEPT ![agent] = @ + 2]]

StartRun(req, agent) ==
  [req EXCEPT !.runs = [@ EXCEPT ![agent] = @ + 1]]

\* requests are numbered in the order in which their handlers start; a
\* handler starts whatever the other requests are doing
NextToArrive_serial(r) ==
  /\ reqs[r].pc = "idle"
  /\ \A q \in Requests : q < r => reqs[q].pc = "done"

NextToArrive(r) ==
  /\ reqs[r].pc = "idle"
  /\ \A q \in Requests : q < r => reqs[q].pc # "idle"

Reject(r, channel, type, key, code) ==
  reqs' = [reqs EXCEPT ![r] = [@ EXCEPT !.pc = "done", !.channel = channel,
                                        !.type = type, !.key = key,
                                        !.code = code]]

\* models.py line 15: the Literal of WebMonitorPayload.type
WebMonitorTypes == {"web-monitor", "truthsocial", "twitter"}

\* the types a client declares in the payloads it posts
DeclaredTypes == {"web-monitor", "truthsocial", "newsletter"}

\* validation of WebMonitorPayload by the framework, before the handler
\* is entered; a failure is answered 422
WebPayloadValid_any(type) == TRUE

WebPayloadValid(type) == type \in WebMonitorTypes

\* the handler with the analyzer check of lines 114-116 ahead of line 110
handle_web_monitor_notification_check_first(r, type, url) ==
  /\ NextToArrive(r)
  /\ unit.pc = "off"
  /\ IF ~WebPayloadValid(type)
     THEN /\ Reject(r, WebMonitor, type, url, 422)
          /\ UNCHANGED processed_content_ids
     ELSE IF AlreadyProcessed(processed_content_ids, url)
     THEN /\ Reject(r, WebMonitor, type, url, 409)
          /\ UNCHANGED processed_content_ids
     ELSE IF AnalyzerMissing(fed_decision_analyzer)
     THEN /\ Reject(r, WebMonitor, type, url, 503)
          /\ UNCHANGED processed_content_ids
     ELSE /\ processed_content_ids' = AddProcessed(processed_content_ids, url)
          /\ reqs' = [reqs EXCEPT ![r] =
                        StartRun(InvokeAnalyzer(
                          [@ EXCEPT !.pc = "await_fed", !.channel = WebMonitor,
                                    !.type = type, !.key = url], "fed"), "fed")]
  /\ UNCHANGED <<appState, unit>>

\* POST /notify/web-monitor up to its first suspension point.  The url of
\* WebMonitorPayload is Optional with default None, so a payload without a
\* url passes validation and reaches the handler with url = None.
handle_web_monitor_notification(r, type, url) ==
  /\ NextToArrive(r)
  /\ unit.pc = "off"
  /\ IF ~WebPayloadValid(type)
     THEN /\ Reject(r, WebMonitor, type, url, 422)
          /\ UNCHANGED processed_content_ids
     ELSE IF AlreadyProcessed(processed_content_ids, url)
     THEN /\ Reject(r, WebMonitor, type, url, 409)
          /\ UNCHANGED processed_content_ids
     ELSE /\ processed_content_ids' = AddProcessed(processed_content_ids, url)
          /\ IF AnalyzerMissing(fed_decision_analyzer)
             THEN Reject(r, WebMonitor, type, url, 503)
             ELSE reqs' = [reqs EXCEPT ![r] =
                            StartRun(InvokeAnalyzer(
                              [@ EXCEPT !.pc = "await_fed", !.channel = WebMonitor,
                                        !.type = type, !.key = url], "fed"), "fed")]
  /\ UNCHANGED <<appState, unit>>

\* the FED analyzer's model call returns; analyze_content returns and
\* _process_analysis_result runs to the response without suspension
FedAnalyzerReturns(r, out) ==
  /\ reqs[r].pc = "await_fed"
  /\ \E x \in ExchangeOutcomes(FEDAnalyzeContent(out)) :
        reqs' = [reqs EXCEPT ![r] =
                  Finish([@ EXCEPT !.fault = RunRaised(out.type)],
                         FEDAnalyzeContent(out), x[1], x[2])]
  /\ UNCHANGED <<processed_content_ids, appState, unit>>

\* validation of SocialMediaPayload: content_id is required
SocialPayloadValid(content_id) == content_id # None

\* POST /notify/truth-social up to its first suspension point
handle_truth_social_notification(r, content_id) ==
  /\ NextToArrive(r)
  /\ unit.pc = "off"
  /\ IF ~SocialPayloadValid(content_id)
     THEN /\ Reject(r, TruthSocial, None, content_id, 400)
          /\ UNCHANGED processed_content_ids
     ELSE IF AlreadyProcessed(processed_content_ids, content_id)
     THEN /\ Reject(r, TruthSocial, None, content_id, 409)
          /\ UNCHANGED processed_content_ids
     ELSE /\ processed_content_ids' = AddProcessed(processed_content_ids, content_id)
          /\ IF AnalyzerMissing(social_media_analyzer)
             THEN Reject(r, TruthSocial, None, content_id, 503)
             ELSE reqs' = [reqs EXCEPT ![r] =
                            StartRun(InvokeAnalyzer(
                              [@ EXCEPT !.pc = "await_topic", !.channel = TruthSocial,
                                        !.key = content_id,
                                        !.result = EmptyPipelineOutput], "social"),
                                     "topic")]
  /\ UNCHANGED <<appState, unit>>

\* the topic classification call returns: either a direction agent is run
\* next, or analyze_content returns and the result is processed
TopicAgentReturns(r, out) ==
  /\ reqs[r].pc = "await_topic"
  /\ IF NeedsDirection(out)
     THEN reqs' = [reqs EXCEPT ![r] =
                    StartRun([@ EXCEPT !.pc = "await_direction",
                                       !.direction_agent =
                                          DirectionAgentFor(out.classification),
                                       !.result = AfterTopic(out)], "direction")]
     ELSE \E x \in ExchangeOutcomes(AfterTopic(out)) :
            reqs' = [reqs EXCEPT ![r] =
                      Finish([@ EXCEPT !.fault = RunRaised(out.kind)],
                             AfterTopic(out), x[1], x[2])]
  /\ UNCHANGED <<processed_content_ids, appState, unit>>

\* the direction call returns; analyze_content returns and the result is
\* processed
DirectionAgentReturns(r, out) ==
  /\ reqs[r].pc = "await_direction"
  /\ \E x \in ExchangeOutcomes(AfterDirection(reqs[r].result, out)) :
        reqs' = [reqs EXCEPT ![r] =
                  Finish([@ EXCEPT !.fault = RunRaised(out.kind)],
                         AfterDirection(reqs[r].result, out), x[1], x[2])]
  /\ UNCHANGED <<processed_content_ids, appState, unit>>

\* GET /: answers with a fixed message and touches nothing of app.state
read_root_reset ==
  /\ unit.pc = "off"
  /\ processed_content_ids' = {}
  /\ UNCHANGED <<appState, reqs, unit>>

read_root ==
  /\ unit.pc = "off"
  /\ UNCHANGED vars

\* --- lifespan --------------------------------------------------------------
\* The state after startup: an empty processed set; each analyzer is there
\* unless its constructor raised; the trade manager is there exactly when
\* the trading client is.
UnitOff == [pc |-> "off", input |-> NoResult, prod |-> FALSE, sms |-> FALSE,
            status |-> [kind |-> "None"], submit |-> None, out |-> NoTrade]

Init ==
  /\ processed_content_ids = {}
  /\ fed_decision_analyzer \in BOOLEAN
  /\ social_media_analyzer \in BOOLEAN
  /\ trade_decision_manager \in BOOLEAN
  /\ PROD_EXECUTION \in BOOLEAN
  /\ SMS_NOTIFICATIONS_ENABLED \in BOOLEAN
  /\ reqs = [r \in Requests |-> IdleRequest]
  /\ unit = UnitOff

Next ==
  \/ read_root
  \/ \E r \in Requests, type \in DeclaredTypes, url \in Keys :
        handle_web_monitor_notification(r, type, url)
  \/ \E r \in Requests, content_id \in Keys : handle_truth_social_notification(r, content_id)
  \/ \E r \in Requests, out \in FedRunOutputs : FedAnalyzerReturns(r, out)
  \/ \E r \in Requests, out \in TopicRunOutputs : TopicAgentReturns(r, out)
  \/ \E r \in Requests, out \in DirectionRunOutputs : DirectionAgentReturns(r, out)

Spec == Init /\ [][Next]_vars

\* ------------------------------------------- the trade manager called directly
\* tests/unit/trading call TradeDecisionManager.execute_trade_from_analysis
\* on a manager built around a mock trader, with an analysis result of
\* their own making.
UnitTopics     == {"bitcoin", "Bitcoin", "market", "tariffs", "others", "fed_decision", None}
UnitDirections == {"up", "UP", "down", "neutral", None}
UnitImpacts    == {"positive", "negative", "neutral"}
UnitConfidences == {NoConfidence, 0, 87, 88, 89, 90, 92, 93, 95, 96, 100}

UnitInputs ==
  {AnalysisResult("AnalysisOutput", t, d, c) :
       t \in UnitTopics, d \in UnitDirections, c \in UnitConfidences}
  \cup {AnalysisResult("FEDDecisionImpact", None, d, c) :
       d \in UnitImpacts, c \in UnitConfidences \ {NoConfidence}}
  \cup {AnalysisResult("SocialMediaAnalysisOutput", t, d, c) :
       t \in {"bitcoin", "others"}, d \in {"up", None}, c \in {NoConfidence, 96}}

UnitInit ==
  /\ processed_content_ids = {}
  /\ fed_decision_analyzer = TRUE
  /\ social_media_analyzer = TRUE
  /\ trade_decision_manager = TRUE
  /\ PROD_EXECUTION \in BOOLEAN
  /\ SMS_NOTIFICATIONS_ENABLED \in BOOLEAN
  /\ reqs = [r \in Requests |-> IdleRequest]
  /\ \E i \in UnitInputs :
        unit = [UnitOff EXCEPT !.pc = "ready", !.input = i,
                               !.prod = PROD_EXECUTION,
                               !.sms = SMS_NOTIFICATIONS_ENABLED]

\* decision_manager.execute_trade_from_analysis(analysis_result, content_id)
UnitCall(status, submit) ==
  /\ unit.pc = "ready"
  /\ unit' = [unit EXCEPT !.pc = "called", !.status = status, !.submit = submit,
                          !.out = execute_trade_from_analysis(unit.input, unit.prod,
                                                              unit.sms, status, submit)]
  /\ UNCHANGED <<processed_content_ids, appState, reqs>>

UnitNext == \E st \in StatusOutcomes, sb \in SubmitOutcomes : UnitCall(st, sb)

UnitSpec == UnitInit /\ [][UnitNext]_vars

\* --------------------------------------------- the executor called directly
\* Trader.execute_order(symbol, amount, leverage, limit_offset_percentage) on
\* a trader built around an exchange client whose two calls answer as
\* StatusOutcomes and SubmitOutcomes say.  Amounts are in 1e-5 units and
\* offsets in thousandths, as in AppConfig.
TraderAmounts   == {-200, -100, 0, 100, 200}
TraderLeverages == {5, 10}
TraderOffsets   == {0, 5, 10}

TraderReady(amount, leverage, offset) ==
  [pc |-> "trader_ready", amount |-> amount, leverage |-> leverage,
   limit_offset_percentage |-> offset, status |-> [kind |-> "None"],
   submit |-> None, out |-> NoExecution]

TraderInit ==
  /\ processed_content_ids = {}
  /\ fed_decision_analyzer = TRUE
  /\ social_media_analyzer = TRUE
  /\ trade_decision_manager = TRUE
  /\ PROD_EXECUTION = TRUE
  /\ SMS_NOTIFICATIONS_ENABLED = FALSE
  /\ reqs = [r \in Requests |-> IdleRequest]
  /\ \E a \in TraderAmounts, l \in TraderLeverages, o \in TraderOffsets :
        unit = TraderReady(a, l, o)

\* trader.execute_order(symbol, amount, leverage, limit_offset_percentage)
TraderCall(status, submit) ==
  /\ unit.pc = "trader_ready"
  /\ unit' = [unit EXCEPT !.pc = "trader_called", !.status = status,
                          !.submit = submit,
                          !.out = execute_order(unit.amount, unit.leverage,
                                                unit.limit_offset_percentage,
                                                status, submit)]
  /\ UNCHANGED <<processed_content_ids, appState, reqs>>

TraderNext == \E st \in StatusOutcomes, sb \in SubmitOutcomes : TraderCall(st, sb)

TraderSpec == TraderInit /\ [][TraderNext]_vars

\* ======================================================================
\* Properties
\* ======================================================================
Handled(r)  == reqs[r].pc # "idle"
Answered(r) == reqs[r].pc = "done"
Waiting(r)  == reqs[r].pc \in {"await_fed", "await_topic", "await_direction"}

\* the request passed the dedup gate
Malformed(r) == reqs[r].code \in {400, 422}

Admitted(r) == Handled(r) /\ ~Malformed(r) /\ reqs[r].code # 409

\* an earlier request carried the same dedup key through validation
EarlierSameKey(r) ==
  \E q \in Requests : q < r /\ reqs[q].key = reqs[r].key /\ ~Malformed(q)

AnalyzerAvailable(channel) ==
  IF channel = WebMonitor THEN fed_decision_analyzer ELSE social_media_analyzer

\* the analysis result is neither Failed nor Irrelevant
Actionable(r) ==
  /\ Answered(r)
  /\ reqs[r].result.type \in {"FEDDecisionImpact", "SocialMediaAnalysisOutput"}

\* all requests handled so far came in on one channel
OneChannel == \A q, r \in Requests :
  Handled(q) /\ Handled(r) => reqs[q].channel = reqs[r].channel

\* ---------------------------------------------------------------- C1
\* C1 as stated: on one channel the first request with a dedup key is
\* answered 200, every later request with that key 409.
C1_FirstAnswered200 ==
  OneChannel =>
    \A r \in Requests :
      Answered(r) /\ reqs[r].key # None /\ ~Malformed(r) =>
        IF EarlierSameKey(r) THEN reqs[r].code = 409 ELSE reqs[r].code = 200

\* C1 amended: the first valid request that carries a dedup key is admitted: the
\* key is inserted and the request is never answered 409; its answer is 503
\* exactly when the analyzer of its channel is missing, 500 exactly when the
\* trade manager raised, and 200 otherwise.  Every later request with that
\* key is answered 409 at once, and a request with another, unseen key is
\* admitted like a first one.
C1_FirstAdmittedLaterConflict ==
  \A r \in Requests :
    Handled(r) /\ reqs[r].key # None /\ ~Malformed(r) =>
      IF EarlierSameKey(r)
      THEN Answered(r) /\ reqs[r].code = 409
      ELSE /\ reqs[r].key \in processed_content_ids
           /\ reqs[r].code # 409
           /\ Answered(r) =>
                /\ reqs[r].code \in {200, 500, 503}
                /\ reqs[r].code = 503 <=> ~AnalyzerAvailable(reqs[r].channel)
                /\ reqs[r].code = 500 <=> reqs[r].trade.raised

\* on one channel: a key answered 200, then the same key answered 409 or
\* another key answered 200
C1_Witness ==
  /\ MaxReq >= 2
  /\ \E a, b \in Requests :
       /\ a < b /\ Answered(a) /\ Answered(b)
       /\ reqs[a].channel = reqs[b].channel
       /\ reqs[a].key # None /\ reqs[a].code = 200
       /\ \/ reqs[b].key = reqs[a].key /\ reqs[b].code = 409
          \/ reqs[b].key \notin {reqs[a].key, None} /\ reqs[b].code = 200

\* ---------------------------------------------------------------- C2
\* C2: of the requests that carry one dedup key exactly one passes the
\* gate and all the others are answered 409, in every interleaving; the key
\* is in the processed set while the admitted request waits for its
\* analyzer.
C2_OneWinnerPerKey ==
  /\ \A r \in Requests : Waiting(r) => reqs[r].key \in processed_content_ids
  /\ \A k \in Keys :
       LET carriers == {r \in Requests : Handled(r) /\ reqs[r].key = k
                                          /\ ~Malformed(r)}
           winners  == {r \in carriers : Admitted(r)}
       IN  carriers # {} =>
             /\ Cardinality(winners) = 1
             /\ \A r \in carriers \ winners : Answered(r) /\ reqs[r].code = 409

\* the loser is answered 409 while the winner still waits for its analyzer
C2_Witness ==
  \E a, b \in Requests :
    /\ a # b /\ reqs[a].key = reqs[b].key
    /\ Waiting(a)
    /\ Answered(b) /\ reqs[b].code = 409

\* ---------------------------------------------------------------- C3
\* C3: an analyzer is invoked at most once per dedup key, and a request
\* answered 409 reached neither an analyzer nor the trade manager.
C3_AtMostOnceAdmission ==
  /\ \A k \in Keys :
       Cardinality({r \in Requests : reqs[r].key = k /\ reqs[r].analyzer # None}) <= 1
  /\ \A r \in Requests :
       reqs[r].code = 409 =>
         /\ reqs[r].analyzer = None
         /\ reqs[r].result = NoResult
         /\ ~reqs[r].tdm_called
         /\ reqs[r].trade = NoTrade

\* a key was analyzed once and its repeat was answered 409
C3_Witness ==
  \E a, b \in Requests :
    /\ a < b /\ reqs[a].key = reqs[b].key
    /\ reqs[a].analyzer # None /\ Answered(a)
    /\ reqs[b].code = 409

\* ---------------------------------------------------------------- C4
\* C4: a web-monitor payload without a url and a social payload without a
\* content_id are answered 400; the processed set is not touched and no
\* analyzer is invoked.
C4_MissingKeyRejected ==
  /\ None \notin processed_content_ids
  /\ \A r \in Requests :
       Handled(r) /\ reqs[r].key = None =>
         /\ Answered(r) /\ reqs[r].code = 400
         /\ reqs[r].analyzer = None

\* ---------------------------------------------------------------- C5
\* C5 as stated: every answer is 2xx unless the payload was malformed or the
\* dedup key was a duplicate.
C5_Only400And409 ==
  \A r \in Requests :
    Answered(r) =>
      \/ reqs[r].code = 200
      \/ reqs[r].code = 400 /\ ~SocialPayloadValid(reqs[r].key)
      \/ reqs[r].code = 422 /\ ~WebPayloadValid(reqs[r].type)
      \/ reqs[r].code = 409 /\ EarlierSameKey(r)

C5_Terminals ==
  \A r \in Requests :
    Answered(r) =>
      \/ reqs[r].code = 200
      \/ reqs[r].code = 400 /\ ~SocialPayloadValid(reqs[r].key)
      \/ reqs[r].code = 422 /\ ~WebPayloadValid(reqs[r].type)
      \/ reqs[r].code = 409 /\ EarlierSameKey(r)
      \/ reqs[r].code = 503 /\ ~AnalyzerAvailable(reqs[r].channel)
                            /\ reqs[r].analyzer = None
      \/ reqs[r].code = 500 /\ reqs[r].trade.raised

C5_AnswerIsFinal ==
  \A r \in Requests : Answered(r) => reqs'[r] = reqs[r]

\* C5 amended: every notification is answered once, and the answer is 2xx
\* except for a malformed payload (400, 422), a duplicate dedup key (409), a
\* missing analyzer (503) and an exception that escapes the trade manager
\* (500).
C5_TerminalStates == []C5_Terminals /\ [][C5_AnswerIsFinal]_vars

\* a well-formed, unseen notification answered 503 and another answered 200
C5_Witness ==
  \E a, b \in Requests :
    /\ Answered(a) /\ ~EarlierSameKey(a) /\ reqs[a].key # None
    /\ reqs[a].code = 503
    /\ Answered(b) /\ reqs[b].code = 200 /\ reqs[b].analyzer # None

\* ---------------------------------------------------------------- C6
\* C6: an Irrelevant analysis result is answered 200 "success_no_action",
\* and neither the trade manager nor the executor is invoked.
C6_IrrelevantNoAction ==
  \A r \in Requests :
    Answered(r) /\ reqs[r].result.type \in IrrelevantTypes =>
      /\ reqs[r].code = 200
      /\ reqs[r].status = "success_no_action"
      /\ ~reqs[r].tdm_called
      /\ reqs[r].trade = NoTrade

C6_Witness ==
  \E r \in Requests :
    /\ Answered(r) /\ reqs[r].result.type = "IrrelevantFEDContent"
    /\ trade_decision_manager

\* ---------------------------------------------------------------- C7
\* C7: a Failed analysis result is answered 200 "success_analysis_failed",
\* the trade manager is not invoked, the key stays in the processed set and
\* a repeat of the key is answered 409 without being analyzed.
C7_FailedHandled ==
  \A r \in Requests :
    Answered(r) /\ reqs[r].result.type \in FailedTypes =>
      /\ reqs[r].code = 200
      /\ reqs[r].status = "success_analysis_failed"
      /\ ~reqs[r].tdm_called
      /\ reqs[r].trade = NoTrade
      /\ reqs[r].key \in processed_content_ids
      /\ \A q \in Requests :
           q > r /\ Handled(q) /\ reqs[q].key = reqs[r].key /\ ~Malformed(q) =>
             reqs[q].code = 409 /\ reqs[q].analyzer = None

\* a failed analysis whose key was sent again
C7_Witness ==
  \E r, q \in Requests :
    /\ Answered(r) /\ reqs[r].result.type = "FailedFEDAnalysis"
    /\ trade_decision_manager
    /\ q > r /\ reqs[q].key = reqs[r].key /\ reqs[q].code = 409

\* ---------------------------------------------------------------- C8
\* C8 as stated: a request that needs a collaborator which is missing - the
\* analyzer of its channel, or the trade manager for an actionable result -
\* is answered 503.
C8_MissingCollaborator503 ==
  \A r \in Requests :
    Answered(r) =>
      /\ Admitted(r) /\ ~AnalyzerAvailable(reqs[r].channel) => reqs[r].code = 503
      /\ Actionable(r) /\ ~trade_decision_manager => reqs[r].code = 503

\* C8 amended: a request that passes the dedup gate is answered 503 exactly
\* when the analyzer of its channel is missing; a missing trade manager never
\* gives 503: the actionable result is answered 200.
C8_Only503ForAnalyzer ==
  \A r \in Requests :
    Answered(r) =>
      /\ Admitted(r) =>
           (reqs[r].code = 503 <=> ~AnalyzerAvailable(reqs[r].channel))
      /\ Actionable(r) /\ ~trade_decision_manager =>
           reqs[r].code = 200 /\ ~reqs[r].tdm_called

\* both cases: a missing analyzer, and an actionable result without manager
C8_Witness ==
  /\ \E r \in Requests : Answered(r) /\ reqs[r].code = 503
  /\ \E r \in Requests : Actionable(r) /\ ~trade_decision_manager

\* ---------------------------------------------------------------- C9
\* C9: an actionable result met by a missing trade manager is answered 200
\* "success_trade_manager_unavailable"; no order is resolved, executed or
\* simulated.
C9_ManagerUnavailableSkipped ==
  \A r \in Requests :
    Actionable(r) /\ ~trade_decision_manager =>
      /\ reqs[r].code = 200
      /\ reqs[r].status = "success_trade_manager_unavailable"
      /\ ~reqs[r].tdm_called
      /\ reqs[r].trade.order = NoOrder
      /\ reqs[r].trade.executor_calls = 0
      /\ ~reqs[r].trade.simulated
      /\ reqs[r].trade.sms = None

C9_Witness ==
  \E r \in Requests :
    /\ Actionable(r) /\ ~trade_decision_manager
    /\ reqs[r].result.type = "FEDDecisionImpact"
    /\ reqs[r].result.direction = "positive"
    /\ reqs[r].result.confidence >= AppConfig.CONFIDENCE_THRESHOLD_FED_HIGH

\* ---------------------------------------------------------------- C10
\* the thresholds and bundles the configuration holds for a topic
ConfiguredBundle(topic_lower) ==
  IF topic_lower = "bitcoin"
  THEN [threshold_high |-> AppConfig.TS_CONFIDENCE_THRESHOLD_BITCOIN_HIGH,
        threshold_med  |-> AppConfig.TS_CONFIDENCE_THRESHOLD_BITCOIN_MED,
        buy_high   |-> <<AppConfig.TS_ORDER_AMOUNT_BITCOIN_BUY_HIGH_CONF,
                         AppConfig.TS_LEVERAGE_BITCOIN_BUY_HIGH_CONF>>,
        buy_med    |-> <<AppConfig.TS_ORDER_AMOUNT_BITCOIN_BUY_MED_CONF,
                         AppConfig.TS_LEVERAGE_BITCOIN_BUY_MED_CONF>>,
        short_high |-> <<AppConfig.TS_ORDER_AMOUNT_BITCOIN_SHORT_HIGH_CONF,
                         AppConfig.TS_LEVERAGE_BITCOIN_SHORT_HIGH_CONF>>,
        short_med  |-> <<AppConfig.TS_ORDER_AMOUNT_BITCOIN_SHORT_MED_CONF,
                         AppConfig.TS_LEVERAGE_BITCOIN_SHORT_MED_CONF>>]
  ELSE IF topic_lower = "fed_decision"
  THEN [threshold_high |-> AppConfig.CONFIDENCE_THRESHOLD_FED_HIGH,
        threshold_med  |-> AppConfig.CONFIDENCE_THRESHOLD_FED_MED,
        buy_high   |-> <<AppConfig.ORDER_AMOUNT_FED_BUY_HIGH_CONF,
                         AppConfig.LEVERAGE_FED_BUY_HIGH_CONF>>,
        buy_med    |-> <<AppConfig.ORDER_AMOUNT_FED_BUY_MED_CONF,
                         AppConfig.LEVERAGE_FED_BUY_MED_CONF>>,
        short_high |-> <<AppConfig.ORDER_AMOUNT_FED_SHORT_HIGH_CONF,
                         AppConfig.LEVERAGE_FED_SHORT_HIGH_CONF>>,
        short_med  |-> <<AppConfig.ORDER_AMOUNT_FED_SHORT_MED_CONF,
                         AppConfig.LEVERAGE_FED_SHORT_MED_CONF>>]
  ELSE [threshold_high |-> AppConfig.TS_CONFIDENCE_THRESHOLD_HIGH,
        threshold_med  |-> AppConfig.TS_CONFIDENCE_THRESHOLD_MED,
        buy_high   |-> <<AppConfig.TS_ORDER_AMOUNT_BUY_HIGH_CONF,
                         AppConfig.TS_LEVERAGE_BUY_HIGH_CONF>>,
        buy_med    |-> <<AppConfig.TS_ORDER_AMOUNT_BUY_MED_CONF,
                         AppConfig.TS_LEVERAGE_BUY_MED_CONF>>,
        short_high |-> <<AppConfig.TS_ORDER_AMOUNT_SHORT_HIGH_CONF,
                         AppConfig.TS_LEVERAGE_SHORT_HIGH_CONF>>,
        short_med  |-> <<AppConfig.TS_ORDER_AMOUNT_SHORT_MED_CONF,
                         AppConfig.TS_LEVERAGE_SHORT_MED_CONF>>]

\* the topic and direction the trade manager derives from its input
UnitTopic ==
  IF unit.input.type = "FEDDecisionImpact" THEN "fed_decision"
  ELSE Lower(unit.input.topic)

UnitDirection == Lower(unit.input.direction)

UnitResolvable ==
  /\ unit.pc = "called"
  /\ unit.input.type \in {"AnalysisOutput", "FEDDecisionImpact"}
  /\ UnitTopic \in {"bitcoin", "market", "tariffs", "fed_decision"}

\* C10: a confidence equal to the topic's high threshold resolves to the
\* high-confidence bundle of the direction, and a confidence equal to the
\* medium threshold resolves to the medium-confidence bundle.
C10_BoundaryInclusive ==
  UnitResolvable /\ UnitDirection \in {"up", "positive", "down", "negative"} =>
    LET b    == ConfiguredBundle(UnitTopic)
        long == UnitDirection \in {"up", "positive"}
        o    == unit.out.order
    IN  /\ unit.input.confidence = b.threshold_high =>
             /\ o.kind = "order"
             /\ <<o.amount, o.leverage>> = IF long THEN b.buy_high ELSE b.short_high
        /\ unit.input.confidence = b.threshold_med =>
             /\ o.kind = "order"
             /\ <<o.amount, o.leverage>> = IF long THEN b.buy_med ELSE b.short_med

\* ---------------------------------------------------------------- C11
\* the call was made on a supported result that carries a topic, a
\* direction and a confidence, so that the resolver is consulted
UnitComplete ==
  /\ unit.pc = "called"
  /\ unit.input.type \in {"AnalysisOutput", "FEDDecisionImpact"}
  /\ ~Falsy(UnitTopic) /\ ~Falsy(unit.input.direction)
  /\ unit.input.confidence # NoConfidence

\* the resolver returned None and nothing was executed or simulated
UnitNoTrade ==
  /\ ~unit.out.raised
  /\ unit.out.order = NoOrder
  /\ unit.out.executor_calls = 0
  /\ ~unit.out.simulated

\* C11: for every topic and every direction a confidence below the medium
\* threshold of the topic makes the resolver return no trade; the executor
\* is not invoked and no order is simulated.
C11_BelowMediumNoTrade ==
  UnitComplete /\ unit.input.confidence < ConfiguredBundle(UnitTopic).threshold_med
    => UnitNoTrade

\* ---------------------------------------------------------------- C12
\* C12: for a neutral direction or impact the resolver returns no trade for
\* every topic and every confidence, 1.0 included; the executor is not
\* invoked.
C12_NeutralNoTrade ==
  UnitComplete /\ UnitDirection = "neutral" => UnitNoTrade

\* ---------------------------------------------------------------- C13
\* the topics for which a trade can be taken: those the social pipeline
\* asks a direction for, and the topic of a FED decision
ActionableTopics == DirectionTopics \cup {"fed_decision"}

UnitExecutedWith(pair) ==
  /\ ~unit.out.raised
  /\ unit.out.order.kind = "order"
  /\ <<unit.out.order.amount, unit.out.order.leverage>> = pair
  /\ unit.out.executor_calls = 1

\* C15: a social-media result with topic "bitcoin", direction "up" and a
\* confidence at or above the bitcoin high threshold makes the trade
\* manager, in execute mode, invoke the executor exactly once with the
\* bitcoin high-confidence buy amount and leverage.
C15_BitcoinHighBuy ==
  /\ unit.pc = "called" /\ unit.prod
  /\ unit.input.type = "AnalysisOutput"
  /\ unit.input.topic = "bitcoin" /\ unit.input.direction = "up"
  /\ unit.input.confidence >= AppConfig.TS_CONFIDENCE_THRESHOLD_BITCOIN_HIGH
  => UnitExecutedWith(ConfiguredBundle("bitcoin").buy_high)

\* ---------------------------------------------------------------- C16
\* C16: a FED decision result is resolved with the FED bundle and the FED
\* thresholds: at or above the high threshold the high-confidence buy or
\* short amount and leverage, from the medium threshold up to the high
\* threshold the medium-confidence ones; in execute mode the executor is
\* called exactly once with these values.
C16_FedBundle ==
  /\ unit.pc = "called" /\ unit.prod
  /\ unit.input.type = "FEDDecisionImpact"
  /\ unit.input.direction \in {"positive", "negative"}
  /\ unit.input.confidence >= AppConfig.CONFIDENCE_THRESHOLD_FED_MED
  => LET b    == ConfiguredBundle("fed_decision")
         long == unit.input.direction = "positive"
         high == unit.input.confidence >= AppConfig.CONFIDENCE_THRESHOLD_FED_HIGH
     IN  UnitExecutedWith(IF high THEN (IF long THEN b.buy_high ELSE b.short_high)
                                  ELSE (IF long THEN b.buy_med ELSE b.short_med))

\* ---------------------------------------------------------------- C17
\* the result is one the configured bundles resolve to an order: a complete
\* result on an actionable topic, with a buy or a short direction and a
\* confidence that reaches the medium threshold of the topic
UnitShouldResolve ==
  /\ UnitComplete
  /\ UnitTopic \in ActionableTopics
  /\ UnitDirection \in {"up", "positive", "down", "negative"}
  /\ unit.input.confidence >= ConfiguredBundle(UnitTopic).threshold_med

\* C17: in simulate mode every resolved order is handled without the
\* executor: no status fetch and no order submission; the outcome is
\* reported as succeeded.
C17_SimulateSkipsExecutor ==
  UnitShouldResolve /\ ~unit.prod =>
    /\ ~unit.out.raised
    /\ unit.out.order.kind = "order"
    /\ unit.out.executor_calls = 0
    /\ unit.out.exec.status_fetches = 0
    /\ unit.out.exec.submits = 0
    /\ unit.out.simulated
    /\ unit.sms => unit.out.sms = "Succeeded"

\* ---------------------------------------------------------------- C18
\* the exchange does not deliver an order: the status fetch raises or
\* yields no usable price, or the submission is refused
ExchangeFails(status, submit) ==
  LET ex == execute_order(1, 1, AppConfig.LIMIT_OFFSET_BUY, status, submit)
  IN  ex.raised \/ ex.result = None

\* C18: when the execution of a resolved order fails - no price, a refused
\* order or an exception in the executor - the trade manager returns
\* normally and the request is answered 200.
C18_ExecutorFailureNonFatal ==
  UnitShouldResolve /\ unit.prod /\ ExchangeFails(unit.status, unit.submit) =>
    /\ ~unit.out.raised
    /\ unit.out.executor_calls = 1
    /\ process_analysis_result(unit.input, TRUE, unit.prod, unit.sms,
                               unit.status, unit.submit).code = 200

\* ---------------------------------------------------------------- C19
\* each step of a notification is taken at most once
C19_AtMostOnce ==
  \A r \in Requests :
    /\ reqs[r].analyzer_calls <= 1
    /\ reqs[r].runs.fed <= 1
    /\ reqs[r].runs.topic <= 1
    /\ reqs[r].runs.direction <= 1
    /\ reqs[r].trade.executor_calls <= 1
    /\ reqs[r].trade.exec.status_fetches <= 1
    /\ reqs[r].trade.exec.submits <= 1
    \* a direction is only asked for after a topic classification that worked
    /\ reqs[r].runs.direction = 1 => reqs[r].result.topic \in DirectionTopics
    \* a request that is answered has its analyzer call behind it
    /\ Answered(r) /\ reqs[r].analyzer # None => reqs[r].analyzer_calls = 1

\* once a notification is answered, whether its steps worked or failed,
\* nothing of it is attempted again
C19_NothingReattempted ==
  \A r \in Requests :
    Answered(r) =>
      /\ reqs'[r].analyzer_calls = reqs[r].analyzer_calls
      /\ reqs'[r].runs = reqs[r].runs
      /\ reqs'[r].trade = reqs[r].trade
      /\ reqs'[r].pc = "done"

NextNumber(r) ==
  /\ ~Handled(r)
  /\ \A q \in Requests : q < r => Handled(q)

\* the model call request q waits in can return
CanReturn(q) ==
  \/ ENABLED (\E out \in FedRunOutputs : FedAnalyzerReturns(q, out))
  \/ ENABLED (\E out \in TopicRunOutputs : TopicAgentReturns(q, out))
  \/ ENABLED (\E out \in DirectionRunOutputs : DirectionAgentReturns(q, out))

\* a notification with key k arriving as request r is admitted to its
\* analyzer
CanBeAdmitted(r, k) ==
  /\ fed_decision_analyzer =>
       ENABLED (handle_web_monitor_notification(r, WebMonitor, k) /\ reqs'[r].pc = "await_fed")
  /\ social_media_analyzer /\ k # None =>
       ENABLED (handle_truth_social_notification(r, k) /\ reqs'[r].pc = "await_topic")

TraderCalled == unit.pc = "trader_called"

Usable(cell) == cell.kind = "number"

\* C21: the executor takes the mark price when it is present and numeric,
\* otherwise the last price when that is present and numeric, otherwise it
\* fails; when the status fetch fails, the status is malformed or neither
\* price is usable, execute_order returns nothing and submits nothing; an
\* order is submitted only after a usable price was obtained.
C21_PriceOrder ==
  TraderCalled =>
    LET st == unit.status
        o  == unit.out
        priced(p) == /\ o.submits = 1
                     /\ o.submitted.price
                          = limit_price(p, unit.amount, unit.limit_offset_percentage)
                     /\ o.result = unit.submit
        nothing   == /\ o.result = None
                     /\ o.submits = 0
                     /\ o.submitted = NoSubmission
    IN  /\ o.status_fetches = 1
        /\ st.kind # "row" => nothing
        /\ st.kind = "row" /\ Usable(st.mark) => priced(st.mark.value)
        /\ st.kind = "row" /\ ~Usable(st.mark) /\ Usable(st.last) => priced(st.last.value)
        /\ st.kind = "row" /\ ~Usable(st.mark) /\ ~Usable(st.last) => nothing
        /\ o.submits = 1 => st.kind = "row" /\ (Usable(st.mark) \/ Usable(st.last))

\* both prices usable and different: the mark price was taken
C21_Witness ==
  /\ TraderCalled
  /\ unit.status.kind = "row"
  /\ Usable(unit.status.mark) /\ Usable(unit.status.last)
  /\ unit.status.mark.value # unit.status.last.value
  /\ unit.limit_offset_percentage > 0
  /\ unit.out.submits = 1
  /\ unit.out.submitted.price = unit.status.mark.value * (1000 + unit.limit_offset_percentage)

\* C22: the submitted order is a LIMIT order with the requested amount and
\* leverage; its limit price is market_price * (1 + offset) for a long order
\* and market_price * (1 - offset) for a short one, so with a positive offset
\* a long limit is above and a short limit below the market price.
C22_LimitOrder ==
  TraderCalled /\ unit.out.submits = 1 =>
    LET market == current_price(unit.status.mark, unit.status.last).value
        off    == unit.limit_offset_percentage
        sub    == unit.out.submitted
    IN  /\ sub.type = "LIMIT"
        /\ sub.amount = unit.amount
        /\ sub.lev = unit.leverage
        /\ unit.amount > 0 => sub.price = market * (1000 + off)
        /\ unit.amount < 0 => sub.price = market * (1000 - off)
        /\ unit.amount > 0 /\ off > 0 => sub.price > market * 1000
        /\ unit.amount < 0 /\ off > 0 => sub.price < market * 1000

\* a short order priced from the last price, below the market
C22_Witness ==
  /\ TraderCalled
  /\ unit.amount < 0 /\ unit.limit_offset_percentage > 0
  /\ unit.status.kind = "row"
  /\ ~Usable(unit.status.mark) /\ Usable(unit.status.last)
  /\ unit.out.submits = 1
  /\ unit.out.submitted.price < unit.status.last.value * 1000

\* ---------------------------------------------------------------- C23
\* a model call of the request raised inside analyze_content
Faulted(r) == Answered(r) /\ reqs[r].fault

\* C23: an unexpected fault raised during content analysis, by either
\* analyzer, is turned into a Failed result: the request is answered like
\* any failed analysis (200 "success_analysis_failed") and the trade manager
\* is not invoked.
C23_FaultEndsAsFailedAnalysis ==
  \A r \in Requests :
    Faulted(r) =>
      /\ reqs[r].result.type \in FailedTypes
      /\ reqs[r].code = 200
      /\ reqs[r].status = "success_analysis_failed"
      /\ ~reqs[r].tdm_called

\* ---------------------------------------------------------------- C24
\* the analyzer that corresponds to a declared type
AnalyzerOfType(type) ==
  IF type = "web-monitor" THEN "fed"
  ELSE IF type \in {"truthsocial", "twitter"} THEN "social"
  ELSE None

\* the analyzer behind an endpoint
AnalyzerOfChannel(channel) == IF channel = WebMonitor THEN "fed" ELSE "social"

\* C24 as stated: an admitted payload is analyzed by the analyzer of its
\* declared type, never by the other one, and a payload of another type is
\* not analyzed.
C24_RoutedByDeclaredType ==
  \A r \in Requests :
    reqs[r].type # None /\ reqs[r].analyzer # None =>
      reqs[r].analyzer = AnalyzerOfType(reqs[r].type)

\* C24 amended: an admitted payload is analyzed by the analyzer of the
\* endpoint it was posted to, whatever type it declares: a web-monitor
\* payload declaring truthsocial or twitter is analyzed by the FED analyzer
\* and never by the social-media one.  A web-monitor payload declaring a
\* type outside web-monitor/truthsocial/twitter is answered 422 before the
\* dedup check, without being analyzed; no other request is answered 422.
C24_RoutedByEndpoint ==
  \A r \in Requests :
    Handled(r) =>
      /\ reqs[r].analyzer \in {None, AnalyzerOfChannel(reqs[r].channel)}
      /\ reqs[r].channel = WebMonitor =>
           reqs[r].runs.topic = 0 /\ reqs[r].runs.direction = 0
      /\ reqs[r].channel = TruthSocial => reqs[r].runs.fed = 0
      /\ Admitted(r) /\ AnalyzerAvailable(reqs[r].channel) =>
           reqs[r].analyzer = AnalyzerOfChannel(reqs[r].channel)
      /\ (reqs[r].code = 422) <=>
           (reqs[r].channel = WebMonitor /\ reqs[r].type \notin WebMonitorTypes)
      /\ reqs[r].code = 422 =>
           /\ Answered(r)
           /\ reqs[r].analyzer = None /\ reqs[r].analyzer_calls = 0
           /\ reqs[r].result = NoResult
           /\ ~reqs[r].tdm_called
           /\ reqs[r].key \in processed_content_ids =>
                \E q \in Requests : q # r /\ Admitted(q) /\ reqs[q].key = reqs[r].key

\* a payload declaring truthsocial, posted to /notify/web-monitor, got a FED
\* impact; a payload of an undeclared type was answered 422
C24_Witness ==
  \E a, b \in Requests :
    /\ Answered(a) /\ reqs[a].channel = WebMonitor /\ reqs[a].type = "truthsocial"
    /\ reqs[a].analyzer = "fed" /\ reqs[a].result.type = "FEDDecisionImpact"
    /\ Answered(b) /\ reqs[b].code = 422 /\ reqs[b].key = reqs[a].key

\* ---------------------------------------------------------------- C25
\* the fields the trade manager reads from the result of a supported class
UnitSupported == unit.input.type \in {"AnalysisOutput", "FEDDecisionImpact"}

UnitFieldMissing ==
  \/ UnitTopic = None \/ UnitTopic = ""
  \/ unit.input.direction = None \/ unit.input.direction = ""
  \/ unit.input.confidence = NoConfidence

\* C25: when the topic, the direction or the confidence is missing from the
\* analysis result, the resolver is not consulted, no order is resolved, the
\* executor is not invoked, nothing is simulated and no SMS is sent; a
\* result with confidence 0.0 and the other two fields set is complete and
\* goes on to the resolver.
C25_MissingFieldNoTrade ==
  unit.pc = "called" /\ UnitSupported =>
    /\ UnitFieldMissing =>
         /\ ~unit.out.raised
         /\ unit.out.resolver_calls = 0
         /\ unit.out.order = NoOrder
         /\ unit.out.executor_calls = 0
         /\ unit.out.exec = NoExecution
         /\ ~unit.out.simulated
         /\ unit.out.sms = None
    /\ ~UnitFieldMissing => unit.out.resolver_calls = 1

\* a social result with a classified topic and no direction, in production
\* mode with SMS enabled
C25_Witness ==
  /\ unit.pc = "called" /\ unit.prod /\ unit.sms
  /\ unit.input.type = "AnalysisOutput"
  /\ unit.input.topic = "bitcoin"
  /\ unit.input.direction = None /\ unit.input.confidence = NoConfidence
  /\ unit.out.resolver_calls = 0 /\ unit.out.sms = None

\* ---------------------------------------------------------------- C26
SocialAnalysis(r) == reqs[r].analyzer = "social"

\* the direction agent that belongs to a classified topic
MatchingAgent ==
  [market  |-> "market_price_direction_agent",
   bitcoin |-> "bitcoin_price_direction_agent",
   tariffs |-> "tariffs_impact_direction_agent"]

\* C26: in one social-media analysis the topic classification call is made
\* first and exactly once; after it at most one direction call is made, by
\* the market, bitcoin or tariffs agent that matches the classified topic;
\* for topic "others", an unknown topic or a failed classification no
\* direction agent is called and direction and confidence stay empty.
C26_TopicThenOneDirection ==
  \A r \in Requests :
    SocialAnalysis(r) =>
      /\ reqs[r].runs.topic = 1
      /\ reqs[r].runs.direction <= 1
      /\ reqs[r].pc = "await_topic" =>
           reqs[r].runs.direction = 0 /\ reqs[r].direction_agent = None
      /\ reqs[r].runs.direction = 1 =>
           /\ reqs[r].result.topic \in DOMAIN MatchingAgent
           /\ reqs[r].direction_agent = MatchingAgent[reqs[r].result.topic]
      /\ reqs[r].pc \in {"await_direction", "done"}
           /\ reqs[r].result.topic \in DOMAIN MatchingAgent =>
           reqs[r].runs.direction = 1
      /\ reqs[r].result.topic \notin DOMAIN MatchingAgent =>
           /\ reqs[r].runs.direction = 0
           /\ reqs[r].direction_agent = None
           /\ reqs[r].result.direction = None
           /\ reqs[r].result.confidence = NoConfidence

\* one analysis went through the bitcoin agent, another stopped at "others"
C26_Witness ==
  \E a, b \in Requests :
    /\ Answered(a) /\ SocialAnalysis(a)
    /\ reqs[a].result.topic = "bitcoin" /\ reqs[a].result.direction = "up"
    /\ reqs[a].direction_agent = "bitcoin_price_direction_agent"
    /\ Answered(b) /\ SocialAnalysis(b)
    /\ reqs[b].result.topic = "others" /\ reqs[b].runs.direction = 0

\* ---------------------------------------------------------------- C27
\* C27: with SMS notifications enabled, a result that resolves to an order
\* leads to exactly one SMS, sent after the execution attempt; its status is
\* "Succeeded" exactly when the order was simulated or the executor returned
\* a result, "Failed/Aborted" otherwise; a result that resolves to no trade
\* leads to no SMS.
C27_OneSmsPerResolvedOrder ==
  unit.pc = "called" /\ UnitSupported /\ unit.sms =>
    /\ UnitShouldResolve =>
         /\ unit.out.sms \in {"Succeeded", "Failed/Aborted"}
         /\ unit.out.sms = "Succeeded" <=>
              \/ unit.out.simulated
              \/ ~unit.out.exec.raised /\ unit.out.exec.result # None
    /\ ~UnitShouldResolve => unit.out.sms = None

\* ---------------------------------------------------------------- C28
\* the step in which request r is answered "success"
AnsweredSuccessNow(r) ==
  /\ reqs[r].pc # "done"
  /\ reqs'[r].pc = "done"
  /\ reqs'[r].status = "success"

\* C28: the trade of an actionable notification runs in the background: at
\* the moment the response "success" is given, the trade manager's work for
\* that notification has not been waited for, so nothing of it is part of
\* the answering step.
C28_AnsweredBeforeTrade ==
  \A r \in Requests :
    AnsweredSuccessNow(r) =>
      /\ ~reqs'[r].tdm_called
      /\ reqs'[r].trade = NoTrade

\* C28: no step answers "success" after waiting for the trade manager
C28_BackgroundExecution == [][C28_AnsweredBeforeTrade]_vars

\* ---------------------------------------------------------------- C29
\* C29: a request answered 503 for a missing analyzer has left its dedup key
\* in the processed set; the key stays there, every later request with that
\* key is answered 409, not 503, and no request with that key is analyzed.
C29_UnavailableKeepsKey ==
  \A r \in Requests :
    reqs[r].code = 503 =>
      /\ Answered(r)
      /\ ~AnalyzerAvailable(reqs[r].channel)
      /\ reqs[r].key \in processed_content_ids
      /\ \A q \in Requests :
           Handled(q) /\ reqs[q].key = reqs[r].key =>
             /\ reqs[q].analyzer = None /\ reqs[q].runs.fed = 0 /\ reqs[q].runs.topic = 0
             /\ q > r /\ ~Malformed(q) => Answered(q) /\ reqs[q].code = 409

\* the same key sent again to the channel whose analyzer is missing
C29_Witness ==
  \E r, q \in Requests :
    /\ r < q
    /\ reqs[r].code = 503
    /\ reqs[q].channel = reqs[r].channel /\ reqs[q].key = reqs[r].key
    /\ reqs[q].code = 409

\* ---------------------------------------------------------------- C30
\* the keys of the requests that passed the dedup gate, on either channel
AdmittedKeys == {reqs[r].key : r \in {q \in Requests : Admitted(q)}}

\* one set for both channels: it holds exactly the admitted keys, and a key
\* admitted on one channel is a conflict on the other
C30_OneSharedSet ==
  /\ processed_content_ids = AdmittedKeys
  /\ \A a, b \in Requests :
       /\ a < b /\ Admitted(a) /\ Handled(b) /\ ~Malformed(b)
       /\ reqs[a].channel # reqs[b].channel /\ reqs[a].key = reqs[b].key
       => Answered(b) /\ reqs[b].code = 409

\* a step changes the set only by adding the key of the request it admits
C30_OnlyGrows ==
  /\ processed_content_ids \subseteq processed_content_ids'
  /\ processed_content_ids' # processed_content_ids =>
       \E r \in Requests :
         /\ reqs[r].pc = "idle" /\ reqs'[r].pc # "idle"
         /\ reqs'[r].code \notin {400, 409, 422}
         /\ processed_content_ids' = processed_content_ids \cup {reqs'[r].key}

\* C30: both channels share one processed-key set, which only grows: a key
\* admitted on one channel is answered 409 on the other, and no operation -
\* a 409 rejection and GET / included - removes a key or changes the set
\* other than by adding the key of the request being admitted.
C30_SharedSetOnlyGrows == []C30_OneSharedSet /\ [][C30_OnlyGrows]_vars

\* a key admitted on one channel and answered 409 on the other
C30_Witness ==
  \E a, b \in Requests :
    /\ a < b /\ Admitted(a) /\ reqs[a].channel # reqs[b].channel
    /\ reqs[a].key = reqs[b].key
    /\ reqs[b].code = 409
    /\ processed_content_ids = {reqs[a].key}

====
